---- MODULE Spec2Model ----
(***************************************************************************)
(* Book_Review_System: the review, rating-aggregate, follow, like and      *)
(* helpful-vote handlers over the three collections (books, reviews,       *)
(* users).  Every `await` of a database operation is one atomic step; a    *)
(* request slot holds the handler's position (pc) and its local variables. *)
(* Ratings averages are kept in tenths (4.3 is 43).                        *)
(***************************************************************************)
EXTENDS Integers, Sequences, FiniteSets

\* ---- bounds of the model ------------------------------------------------
NumUsers == 3
NumBooks == 1
NumSlots == 2
NumRatings == 2
MaxListLen == 2
ShelfSize == 14

\* ---- program constants --------------------------------------------------
MinRating == 1
MaxRating == 5
\* averageRating: { $gte: 4 } in tenths, ratingsCount: { $gte: 5 }, limit(12)
MinAverageRating == 40
MinRatingsCount == 5
RecommendLimit == 12

Users == 1..NumUsers
Books == 1..NumBooks
Slots == 1..NumSlots
Rids == 1..(NumUsers * NumBooks + 1)
AbsentId == 0
NoReview ==
    [book |-> 0, user |-> 0, rating |-> 0, content |-> "",
     likes |-> <<>>, helpful |-> <<>>, editHistory |-> <<>>]
RatingInputs == (MaxRating - NumRatings + 1)..MaxRating
IdForms == {"lower", "upper"}

\* ---- ObjectId <-> string ------------------------------------------------
\* An id arriving in a path or a body is a 24-digit hex string; the same
\* ObjectId has a lower-case and an upper-case spelling.
toString(oid) == [id |-> oid, form |-> "lower"]
CastObjectId(str) == str.id

\* MongooseArray.includes(string): element-wise loose equality of the
\* string with each ObjectId's toString().
Includes(arr, str) == \E i \in 1..Len(arr) : toString(arr[i]) = str

\* MongooseArray.indexOf(ObjectId): 1-based here, 0 when absent.
IndexOf(arr, oid) ==
    IF \E i \in 1..Len(arr) : arr[i] = oid
    THEN CHOOSE i \in 1..Len(arr) :
            arr[i] = oid /\ \A j \in 1..(i - 1) : arr[j] # oid
    ELSE 0

RECURSIVE PullAll(_, _)
\* $pullAll: removes every occurrence of oid.
PullAll(arr, oid) ==
    IF arr = <<>> THEN <<>>
    ELSE IF Head(arr) = oid THEN PullAll(Tail(arr), oid)
         ELSE <<Head(arr)>> \o PullAll(Tail(arr), oid)

\* $push: appends at the end.
Push(arr, oid) == Append(arr, oid)

Count(arr, x) == Cardinality({i \in 1..Len(arr) : arr[i] = x})
NoDuplicates(arr) == \A i, j \in 1..Len(arr) : arr[i] = arr[j] => i = j
Members(arr) == {arr[i] : i \in 1..Len(arr)}

VARIABLES books, reviews, users, req, hist

vars == <<books, reviews, users, req, hist>>

\* The three collections.
db == <<books, reviews, users>>

\* ---- request slots ------------------------------------------------------
Idle ==
    [op |-> "none", pc |-> "idle", status |-> 0, caller |-> 0,
     target |-> toString(AbsentId), found |-> FALSE, plan |-> "none",
     route |-> "none", bookStr |-> toString(AbsentId), book |-> 0, rid |-> 0,
     rating |-> 0, content |-> "", prevContent |-> "", isHelpful |-> FALSE,
     idx |-> 0, arr |-> <<>>, stale |-> FALSE, loaded |-> <<0, 0>>, computed |-> <<0, 0>>,
     dup |-> FALSE, isbn |-> 0, genre |-> "none", stats |-> <<0, 0>>,
     genres |-> {}, read |-> {}, result |-> <<>>, flag |-> FALSE, count |-> 0,
     bodyUser |-> 0, bodyBook |-> 0]

CanStart(s) == req[s].pc \in {"idle", "done"}
InFlight(s) == ~CanStart(s)
AllDone == \A s \in Slots : CanStart(s)

\* The response is sent: the locals die; what stays is the operation, the
\* caller, the status and the document the request was about (the user for
\* a follow, the book for a review mutation, the review for a like or vote).
Respond(r, code) ==
    [Idle EXCEPT !.op = r.op, !.pc = "done", !.status = code,
                 !.caller = r.caller, !.target = r.target, !.book = r.book,
                 !.rid = IF r.op \in {"like", "helpful"} THEN r.rid ELSE 0,
                 !.isHelpful = r.isHelpful, !.dup = r.dup, !.result = r.result,
                 !.flag = r.flag, !.count = r.count]

InitUsers ==
    [u \in Users |->
        [role |-> IF u = 1 THEN "admin" ELSE "user",
         following |-> <<>>, followers |-> <<>>,
         booksRead |-> <<>>, wishlist |-> <<>>, favoriteGenres |-> <<>>]]

\* A book id with no document.  isbn 0 is a document without the isbn path.
NoBook ==
    [exists |-> FALSE, averageRating |-> 0, ratingsCount |-> 0,
     addedBy |-> 0, isbn |-> 0, genre |-> "none"]

\* The catalogue: books added by user 2, with the schema's defaults.
InitBooks ==
    [b \in Books |-> [NoBook EXCEPT !.exists = TRUE, !.addedBy = 2,
                                    !.genre = "Fiction"]]

\* History of a one-at-a-time run, kept when `on`: the previous request as
\* it ended, the collections before it, and the collections before the
\* current request.
InitHist(on) == [on |-> on, prevReq |-> Idle, prevPre |-> db, curPre |-> db]

\* The collections after connecting: the books of the catalogue, no review.
InitDb ==
    /\ books = InitBooks
    /\ reviews = [r \in Rids |-> NoReview]
    /\ users = InitUsers
    /\ req = [s \in Slots |-> Idle]

Init == InitDb /\ hist = InitHist(FALSE)

InitRecorded == InitDb /\ hist = InitHist(TRUE)

\* The step that starts a request files the one that ended before it.
Record(s) ==
    hist' = IF hist.on
            THEN [hist EXCEPT !.prevReq = req[s], !.prevPre = hist.curPre,
                              !.curPre = db]
            ELSE hist

\* ---- POST /api/users/:id/follow -----------------------------------------
FollowStart(s, callers, targets, forms) ==
    /\ CanStart(s)
    /\ \E caller \in callers, tid \in targets, form \in forms :
         LET target == [id |-> tid, form |-> form]
             r == [Idle EXCEPT !.op = "follow", !.caller = caller,
                               !.target = target]
         IN /\ Len(users[caller].following) < MaxListLen
            /\ tid \in Users => Len(users[tid].followers) < MaxListLen
            /\ req' = [req EXCEPT ![s] =
                         IF target = toString(caller)
                         THEN Respond(r, 400)
                         ELSE [r EXCEPT !.pc = "findTarget"]]
    /\ UNCHANGED <<books, reviews, users>>
    /\ Record(s)

FollowFindTarget(s) ==
    /\ req[s].op = "follow" /\ req[s].pc = "findTarget"
    /\ req' = [req EXCEPT ![s].found = CastObjectId(req[s].target) \in Users,
                          ![s].pc = "findCurrent"]
    /\ UNCHANGED <<books, reviews, users, hist>>

FollowFindCurrent(s) ==
    /\ req[s].op = "follow" /\ req[s].pc = "findCurrent"
    /\ LET r == req[s]
           isFollowing == Includes(users[r.caller].following, r.target)
       IN req' = [req EXCEPT ![s] =
                    IF ~r.found THEN Respond(r, 404)
                    ELSE [r EXCEPT !.plan = IF isFollowing THEN "pull" ELSE "push",
                                   !.pc = "saveCurrent"]]
    /\ UNCHANGED <<books, reviews, users, hist>>

\* currentUser.save(): the array change goes out as $push / $pullAll.
SaveFollowing(us, caller, target, plan) ==
    [us EXCEPT ![caller].following =
        IF plan = "pull" THEN PullAll(@, CastObjectId(target))
        ELSE Push(@, CastObjectId(target))]

\* targetUser.save()
SaveFollowers(us, caller, target, plan) ==
    [us EXCEPT ![CastObjectId(target)].followers =
        IF plan = "pull" THEN PullAll(@, caller) ELSE Push(@, caller)]

FollowSaveCurrent(s) ==
    /\ req[s].op = "follow" /\ req[s].pc = "saveCurrent"
    /\ users' = SaveFollowing(users, req[s].caller, req[s].target, req[s].plan)
    /\ req' = [req EXCEPT ![s].pc = "saveTarget"]
    /\ UNCHANGED <<books, reviews, hist>>

FollowSaveTarget(s) ==
    /\ req[s].op = "follow" /\ req[s].pc = "saveTarget"
    /\ users' = SaveFollowers(users, req[s].caller, req[s].target, req[s].plan)
    /\ req' = [req EXCEPT ![s] = Respond(req[s], 200)]
    /\ UNCHANGED <<books, reviews, hist>>

\* A save that rejects: the catch block answers 500.
FollowSaveCurrentFail(s) ==
    /\ req[s].op = "follow" /\ req[s].pc = "saveCurrent"
    /\ req' = [req EXCEPT ![s] = Respond(req[s], 500)]
    /\ UNCHANGED <<books, reviews, users, hist>>

FollowSaveTargetFail(s) ==
    /\ req[s].op = "follow" /\ req[s].pc = "saveTarget"
    /\ req' = [req EXCEPT ![s] = Respond(req[s], 500)]
    /\ UNCHANGED <<books, reviews, users, hist>>

\* ---- Book.updateAverageRating and the review post hooks -----------------
\* Every lookup finds a document.
AlwaysFound(rs, r) == TRUE

\* Review.findById(id) finds a document.
Exists(rs, r) == r \in Rids /\ rs[r].book # 0

\* { $match: { book: this._id } }
BookReviews(rs, b) == {r \in Rids : rs[r].book = b}

RECURSIVE SumRatings(_, _)
SumRatings(rs, S) ==
    IF S = {} THEN 0
    ELSE LET r == CHOOSE x \in S : TRUE
         IN rs[r].rating + SumRatings(rs, S \ {r})

\* Math.floor in the place of Math.round.
MathFloorTimes10(sum, n) == (10 * sum) \div n

\* Math.round(avg * 10) with avg = sum / n: the nearest integer, a half
\* going up.
MathRoundTimes10(sum, n) == (2 * 10 * sum + n) \div (2 * n)

\* The pair <<averageRating in tenths, ratingsCount>> the method assigns.
Stats(rs, b) ==
    LET S == BookReviews(rs, b)
        n == Cardinality(S)
    IN IF n > 0 THEN <<MathRoundTimes10(SumRatings(rs, S), n), n>> ELSE <<0, 0>>

\* What follows the hook: the create handler goes on to booksRead, the
\* other handlers answer.
AfterHook(r) ==
    IF r.op = "createReview" THEN [r EXCEPT !.pc = "findUser"]
    ELSE Respond(r, 200)

\* Book.findById(doc.book) of the hook
HookFindBook(s) ==
    /\ req[s].pc = "hookFindBook"
    /\ LET r == req[s]
       IN req' = [req EXCEPT ![s] =
                    IF books[r.book].exists
                    THEN [r EXCEPT !.loaded = <<books[r.book].averageRating,
                                                books[r.book].ratingsCount>>,
                                   !.pc = "hookAggregate"]
                    ELSE AfterHook(r)]
    /\ UNCHANGED <<books, reviews, users, hist>>

\* Review.aggregate([...]) and the assignments to this.averageRating and
\* this.ratingsCount
HookAggregate(s) ==
    /\ req[s].pc = "hookAggregate"
    /\ req' = [req EXCEPT ![s].computed = Stats(reviews, req[s].book),
                          ![s].pc = "hookSaveBook"]
    /\ UNCHANGED <<books, reviews, users, hist>>

\* A save that writes ratingsCount alone.
SaveCountOnly(bs, b, loaded, computed) ==
    [bs EXCEPT ![b].ratingsCount = computed[2]]

\* this.save(): only the paths whose value changed since the load are $set.
SaveBook(bs, b, loaded, computed) ==
    [bs EXCEPT ![b].averageRating = IF computed[1] # loaded[1] THEN computed[1] ELSE @,
               ![b].ratingsCount = IF computed[2] # loaded[2] THEN computed[2] ELSE @]

HookSaveBook(s) ==
    /\ req[s].pc = "hookSaveBook"
    /\ LET r == req[s]
       IN IF books[r.book].exists
          THEN /\ books' = SaveBook(books, r.book, r.loaded, r.computed)
               /\ req' = [req EXCEPT ![s] = AfterHook(r)]
          ELSE /\ books' = books
               /\ req' = [req EXCEPT ![s] = Respond(r, 500)]
    /\ UNCHANGED <<reviews, users, hist>>

\* The rejection is swallowed and the handler goes on.
ContinueAfterError(r) == AfterHook(r)

\* A rejection inside a post hook rejects the save / findByIdAndUpdate /
\* findByIdAndDelete the handler awaits; its catch block answers 500.
OnHookError(r) == Respond(r, 500)

\* this.save() of updateAverageRating rejects (the write fails).
HookSaveBookFail(s) ==
    /\ req[s].pc = "hookSaveBook"
    /\ req' = [req EXCEPT ![s] = OnHookError(req[s])]
    /\ UNCHANGED <<books, reviews, users, hist>>

\* ---- POST /api/reviews and POST /api/books/:id/reviews ------------------
Routes == {"reviews", "nested"}

\* The collection without the unique index.
NoUniqueIndex(rs, b, u) == FALSE

\* The unique index { book: 1, user: 1 }.
UniqueIndexViolated(rs, b, u) ==
    \E r \in Rids : rs[r].book = b /\ rs[r].user = u

LiveRids == {r \in Rids : reviews[r].book # 0}

\* The _id of a new document: an id no document has and no request holds.
FreeRids == {r \in Rids : reviews[r].book = 0
                          /\ \A t \in Slots : InFlight(t) => req[t].rid # r}
NewRid == CHOOSE r \in FreeRids : \A q \in FreeRids : r <= q

\* The body may carry a user field (0: none) and, on the nested route where
\* the book comes from the path, a book field (0: none); on POST /api/reviews
\* the body's book is the id the handler looks up.
CreateStartWithBody(s, callers, routes, forms, bodyUsers, bodyBooks) ==
    /\ CanStart(s)
    /\ \E caller \in callers, route \in routes,
          bid \in DOMAIN books \cup {AbsentId},
          form \in forms, rating \in RatingInputs,
          bodyUser \in bodyUsers, bodyBook \in bodyBooks :
         /\ Len(users[caller].booksRead) < MaxListLen
         /\ route = "reviews" => bodyBook = 0
         /\ req' = [req EXCEPT ![s] =
                      [Idle EXCEPT !.op = "createReview", !.pc = "findBook",
                                   !.caller = caller, !.route = route,
                                   !.bookStr = [id |-> bid, form |-> form],
                                   !.rating = rating, !.content = "a",
                                   !.bodyUser = bodyUser,
                                   !.bodyBook = IF route = "reviews" THEN bid
                                                ELSE bodyBook]]
    /\ UNCHANGED <<books, reviews, users>>
    /\ Record(s)

CreateStart(s, callers, routes, forms) ==
    CreateStartWithBody(s, callers, routes, forms, {0}, {0})

CreateFindBook(s) ==
    /\ req[s].op = "createReview" /\ req[s].pc = "findBook"
    /\ LET r == req[s]
           b == CastObjectId(r.bookStr)
       IN req' = [req EXCEPT ![s] =
                    IF b \in DOMAIN books /\ books[b].exists
                    THEN [r EXCEPT !.book = b, !.pc = "findExisting"]
                    ELSE Respond(r, 404)]
    /\ UNCHANGED <<books, reviews, users, hist>>

CreateFindExisting(s) ==
    /\ req[s].op = "createReview" /\ req[s].pc = "findExisting"
    /\ LET r == req[s]
       IN req' = [req EXCEPT ![s] =
                    IF \E x \in Rids : reviews[x].book = r.book
                                       /\ reviews[x].user = r.caller
                    THEN Respond([r EXCEPT !.dup = TRUE], 400)
                    ELSE [r EXCEPT !.pc = "saveReview"]]
    /\ UNCHANGED <<books, reviews, users, hist>>

\* new Review({...req.body, user: req.user._id}), and on the nested route
\* new Review({...req.body, book: book._id, user: req.user._id}): the body's
\* fields first, then the handler's own values over them.
SpreadBody(r) ==
    [NoReview EXCEPT !.book = r.bodyBook, !.user = r.bodyUser,
                     !.rating = r.rating, !.content = r.content]

\* The document built from the body alone, nothing set over it.
BodyOnly(r) == SpreadBody(r)

NewReview(r) ==
    [SpreadBody(r) EXCEPT !.book = IF r.route = "nested" THEN r.book ELSE @,
                          !.user = r.caller]

\* review.save(): the insert, refused by the unique index (E11000) when the
\* pair is taken; the catch block answers 500.
CreateSaveReview(s) ==
    /\ req[s].op = "createReview" /\ req[s].pc = "saveReview"
    /\ LET r == req[s]
       IN IF UniqueIndexViolated(reviews, r.book, r.caller)
          THEN /\ reviews' = reviews
               /\ req' = [req EXCEPT ![s] = Respond([r EXCEPT !.dup = TRUE], 500)]
          ELSE /\ FreeRids # {}
               /\ reviews' = [reviews EXCEPT ![NewRid] = NewReview(r)]
               /\ req' = [req EXCEPT ![s].rid = NewRid, ![s].pc = "hookFindBook"]
    /\ UNCHANGED <<books, users, hist>>

\* User.findById and the booksRead test: POST /api/reviews tests the body's
\* string, the nested route tests book._id.
CreateFindUser(s) ==
    /\ req[s].op = "createReview" /\ req[s].pc = "findUser"
    /\ LET r == req[s]
           has == IF r.route = "reviews"
                  THEN Includes(users[r.caller].booksRead, r.bookStr)
                  ELSE Includes(users[r.caller].booksRead, toString(r.book))
       IN req' = [req EXCEPT ![s] =
                    IF has THEN Respond(r, 201) ELSE [r EXCEPT !.pc = "saveUser"]]
    /\ UNCHANGED <<books, reviews, users, hist>>

CreateSaveUser(s) ==
    /\ req[s].op = "createReview" /\ req[s].pc = "saveUser"
    /\ users' = [users EXCEPT ![req[s].caller].booksRead = Push(@, req[s].book)]
    /\ req' = [req EXCEPT ![s] = Respond(req[s], 201)]
    /\ UNCHANGED <<books, reviews, hist>>

\* ---- PUT /api/reviews/:id -----------------------------------------------
Contents == {"a", "b"}

UpdateStart(s, callers, rids, ratings, contents) ==
    /\ CanStart(s)
    /\ \E caller \in callers, rid \in rids, rating \in ratings, content \in contents :
         /\ Len(reviews[rid].editHistory) < MaxListLen
         /\ req' = [req EXCEPT ![s] =
                      [Idle EXCEPT !.op = "updateReview", !.pc = "findReview",
                                   !.caller = caller, !.rid = rid,
                                   !.rating = rating, !.content = content]]
    /\ UNCHANGED <<books, reviews, users>>
    /\ Record(s)

\* No ownership check.
AnyCaller(review, caller) == TRUE

\* review.user.toString() !== req.user._id.toString() is false
IsAuthor(review, caller) == toString(review.user) = toString(caller)

UpdateFindReview(s) ==
    /\ req[s].op = "updateReview" /\ req[s].pc = "findReview"
    /\ LET r == req[s]
           review == reviews[r.rid]
       IN req' = [req EXCEPT ![s] =
                    IF ~Exists(reviews, r.rid) THEN Respond(r, 404)
                    ELSE IF ~IsAuthor(review, r.caller) THEN Respond(r, 403)
                    ELSE [r EXCEPT !.prevContent = review.content,
                                   !.book = review.book,
                                   !.pc = "findByIdAndUpdate"]]
    /\ UNCHANGED <<books, reviews, users, hist>>

\* The update document applied by findByIdAndUpdate: rating 0 and content ""
\* stand for fields the body does not carry.
ApplyUpdates(review, rating, content, prevContent) ==
    [review EXCEPT !.rating = IF rating # 0 THEN rating ELSE @,
                   !.content = IF content # "" THEN content ELSE @,
                   !.editHistory = IF content # "" /\ content # prevContent
                                   THEN Append(@, prevContent) ELSE @]

UpdateApply(s) ==
    /\ req[s].op = "updateReview" /\ req[s].pc = "findByIdAndUpdate"
    /\ LET r == req[s]
       IN IF Exists(reviews, r.rid)
          THEN /\ reviews' = [reviews EXCEPT ![r.rid] =
                                ApplyUpdates(@, r.rating, r.content, r.prevContent)]
               /\ req' = [req EXCEPT ![s].pc = "hookFindBook"]
          ELSE /\ reviews' = reviews
               /\ req' = [req EXCEPT ![s] = Respond(r, 200)]
    /\ UNCHANGED <<books, users, hist>>

\* ---- DELETE /api/reviews/:id --------------------------------------------
DeleteStart(s, callers, rids) ==
    /\ CanStart(s)
    /\ \E caller \in callers, rid \in rids :
         req' = [req EXCEPT ![s] =
                   [Idle EXCEPT !.op = "deleteReview", !.pc = "findReview",
                                !.caller = caller, !.rid = rid]]
    /\ UNCHANGED <<books, reviews, users>>
    /\ Record(s)

\* The ownership test without the admin role.
AuthorOnly(review, caller, us) == toString(review.user) = toString(caller)

\* review.user.toString() !== req.user._id.toString()
\*   && req.user.role !== 'admin' is false
MayDelete(review, caller, us) ==
    toString(review.user) = toString(caller) \/ us[caller].role = "admin"

DeleteFindReview(s) ==
    /\ req[s].op = "deleteReview" /\ req[s].pc = "findReview"
    /\ LET r == req[s]
           review == reviews[r.rid]
       IN req' = [req EXCEPT ![s] =
                    IF ~Exists(reviews, r.rid) THEN Respond(r, 404)
                    ELSE IF ~MayDelete(review, r.caller, users)
                         THEN Respond(r, 403)
                    ELSE [r EXCEPT !.book = review.book,
                                   !.pc = "findByIdAndDelete"]]
    /\ UNCHANGED <<books, reviews, users, hist>>

DeleteApply(s) ==
    /\ req[s].op = "deleteReview" /\ req[s].pc = "findByIdAndDelete"
    /\ LET r == req[s]
       IN IF Exists(reviews, r.rid)
          THEN /\ reviews' = [reviews EXCEPT ![r.rid] = NoReview]
               /\ req' = [req EXCEPT ![s].pc = "hookFindBook"]
          ELSE /\ reviews' = reviews
               /\ req' = [req EXCEPT ![s] = Respond(r, 200)]
    /\ UNCHANGED <<books, users, hist>>

\* One review request at a time: both create routes, ids in either
\* spelling, rating updates, deletes.
Next ==
    \/ CreateStart(1, Users, Routes, IdForms)
    \/ CreateFindBook(1)
    \/ CreateFindExisting(1)
    \/ CreateSaveReview(1)
    \/ CreateFindUser(1)
    \/ CreateSaveUser(1)
    \/ UpdateStart(1, Users, Rids, {0} \cup RatingInputs, {""})
    \/ UpdateFindReview(1)
    \/ UpdateApply(1)
    \/ DeleteStart(1, Users, Rids)
    \/ DeleteFindReview(1)
    \/ DeleteApply(1)
    \/ HookFindBook(1)
    \/ HookAggregate(1)
    \/ HookSaveBook(1)

Spec == Init /\ [][Next]_vars

\* One review request at a time by users 1 and 2, canonical ids; the
\* recompute's write of the book may fail.
NextReviewFail ==
    \/ CreateStart(1, 1..2, Routes, {"lower"})
    \/ CreateFindBook(1)
    \/ CreateFindExisting(1)
    \/ CreateSaveReview(1)
    \/ CreateFindUser(1)
    \/ CreateSaveUser(1)
    \/ DeleteStart(1, 1..2, LiveRids)
    \/ DeleteFindReview(1)
    \/ DeleteApply(1)
    \/ HookFindBook(1)
    \/ HookAggregate(1)
    \/ HookSaveBook(1)
    \/ HookSaveBookFail(1)

SpecReviewFail == Init /\ [][NextReviewFail]_vars

\* Overlapping review requests of one user (double submission, several
\* tabs), canonical ids, updates and deletes addressed to reviews that exist
\* when the request arrives.
NextReviewConc ==
    \E s \in Slots :
        \/ CreateStart(s, {1}, Routes, {"lower"})
        \/ CreateFindBook(s)
        \/ CreateFindExisting(s)
        \/ CreateSaveReview(s)
        \/ CreateFindUser(s)
        \/ CreateSaveUser(s)
        \/ UpdateStart(s, {1}, LiveRids, RatingInputs, {""})
        \/ UpdateFindReview(s)
        \/ UpdateApply(s)
        \/ DeleteStart(s, {1}, LiveRids)
        \/ DeleteFindReview(s)
        \/ DeleteApply(s)
        \/ HookFindBook(s)
        \/ HookAggregate(s)
        \/ HookSaveBook(s)

SpecReviewConc == Init /\ [][NextReviewConc]_vars

\* Overlapping updates by its author of the review of InitLike, with or
\* without a content field in the body.
NextUpdateConc ==
    \E s \in Slots :
        \/ UpdateStart(s, {1}, {1}, {0, MaxRating - 1}, Contents \cup {""})
        \/ UpdateFindReview(s)
        \/ UpdateApply(s)
        \/ HookFindBook(s)
        \/ HookAggregate(s)
        \/ HookSaveBook(s)

\* ---- POST /api/reviews/:id/like and /helpful ---------------------------
\* A save that changes the shape of an array ($push, or $set of a whole
\* array) increments the document's version __v; requests that loaded the
\* document before see a version that is no longer the stored one.
MarkStale(rq, s, rid) ==
    [t \in Slots |->
        IF t # s /\ rq[t].rid = rid /\ rq[t].pc = "saveDoc"
        THEN [rq[t] EXCEPT !.stale = TRUE] ELSE rq[t]]

\* The response carries isLiked (userIndex === -1) and likesCount (the
\* length of the local array after the push or splice) as flag and count.
\* likes.splice(userIndex, 1) on the loaded array
Splice(arr, i) == SubSeq(arr, 1, i - 1) \o SubSeq(arr, i + 1, Len(arr))

LikeStart(s, callers, rids) ==
    /\ CanStart(s)
    /\ \E caller \in callers, rid \in rids :
         req' = [req EXCEPT ![s] =
                   [Idle EXCEPT !.op = "like", !.pc = "findReview",
                                !.caller = caller, !.rid = rid]]
    /\ UNCHANGED <<books, reviews, users>>
    /\ Record(s)

LikeFindReview(s) ==
    /\ req[s].op = "like" /\ req[s].pc = "findReview"
    /\ LET r == req[s]
           review == reviews[r.rid]
           userIndex == IndexOf(review.likes, r.caller)
       IN req' = [req EXCEPT ![s] =
                    IF ~Exists(reviews, r.rid) THEN Respond(r, 404)
                    ELSE [r EXCEPT !.book = review.book, !.idx = userIndex,
                                   !.plan = IF userIndex = 0 THEN "push" ELSE "splice",
                                   !.arr = IF userIndex = 0 THEN <<>>
                                           ELSE Splice(review.likes, userIndex),
                                   !.flag = (userIndex = 0),
                                   !.count = IF userIndex = 0
                                             THEN Len(review.likes) + 1
                                             ELSE Len(review.likes) - 1,
                                   !.pc = "saveDoc"]]
    /\ UNCHANGED <<books, reviews, users, hist>>

\* review.save() of the like handler: a push goes out as $push and does not
\* test the version; a splice goes out as $set of the whole local array
\* under the loaded version.
LikeSave(s) ==
    /\ req[s].op = "like" /\ req[s].pc = "saveDoc"
    /\ LET r == req[s]
       IN IF ~Exists(reviews, r.rid) \/ (r.plan = "splice" /\ r.stale)
          THEN /\ reviews' = reviews
               /\ req' = [req EXCEPT ![s] = Respond(r, 500)]
          ELSE /\ reviews' = [reviews EXCEPT ![r.rid].likes =
                                IF r.plan = "push" THEN Push(@, r.caller) ELSE r.arr]
               /\ req' = [MarkStale(req, s, r.rid) EXCEPT ![s].pc = "hookFindBook"]
    /\ UNCHANGED <<books, users, hist>>

\* No vote is ever found.
NoVoteIndex(helpful, u) == 0

\* review.helpful.findIndex(vote => vote.user.toString() === userId.toString()),
\* 1-based, 0 when absent.
ExistingVoteIndex(helpful, u) ==
    IF \E i \in 1..Len(helpful) : toString(helpful[i].user) = toString(u)
    THEN CHOOSE i \in 1..Len(helpful) :
            /\ toString(helpful[i].user) = toString(u)
            /\ \A j \in 1..(i - 1) : toString(helpful[j].user) # toString(u)
    ELSE 0

HelpfulStart(s, callers, rids) ==
    /\ CanStart(s)
    /\ \E caller \in callers, rid \in rids, isHelpful \in BOOLEAN :
         req' = [req EXCEPT ![s] =
                   [Idle EXCEPT !.op = "helpful", !.pc = "findReview",
                                !.caller = caller, !.rid = rid,
                                !.isHelpful = isHelpful]]
    /\ UNCHANGED <<books, reviews, users>>
    /\ Record(s)

\* The plan is what the save will send: "set" for an existing vote whose
\* value changes, "none" for one that keeps its value, "push" for a new one.
HelpfulFindReview(s) ==
    /\ req[s].op = "helpful" /\ req[s].pc = "findReview"
    /\ LET r == req[s]
           review == reviews[r.rid]
           existingVoteIndex == ExistingVoteIndex(review.helpful, r.caller)
       IN req' = [req EXCEPT ![s] =
                    IF ~Exists(reviews, r.rid) THEN Respond(r, 404)
                    ELSE [r EXCEPT
                            !.book = review.book, !.idx = existingVoteIndex,
                            !.plan = IF existingVoteIndex = 0 THEN "push"
                                     ELSE IF review.helpful[existingVoteIndex].isHelpful
                                             # r.isHelpful
                                          THEN "set" ELSE "none",
                            !.pc = "saveDoc"]]
    /\ UNCHANGED <<books, reviews, users, hist>>

\* review.save() of the helpful handler: a new vote goes out as $push; a
\* changed vote as $set of helpful.<idx>.isHelpful under the loaded version;
\* an unchanged document sends nothing.
HelpfulSave(s) ==
    /\ req[s].op = "helpful" /\ req[s].pc = "saveDoc"
    /\ LET r == req[s]
       IN IF ~Exists(reviews, r.rid) \/ (r.plan = "set" /\ r.stale)
          THEN /\ reviews' = reviews
               /\ req' = [req EXCEPT ![s] = Respond(r, 500)]
          ELSE /\ reviews' = [reviews EXCEPT ![r.rid].helpful =
                                IF r.plan = "push"
                                THEN Append(@, [user |-> r.caller,
                                                isHelpful |-> r.isHelpful])
                                ELSE IF r.plan = "set"
                                     THEN [@ EXCEPT ![r.idx].isHelpful = r.isHelpful]
                                     ELSE @]
               /\ req' = [(IF r.plan = "push" THEN MarkStale(req, s, r.rid) ELSE req)
                            EXCEPT ![s].pc = "hookFindBook"]
    /\ UNCHANGED <<books, users, hist>>

\* A state after user 1 reviewed book 1 with the top rating.
LikeDb ==
    /\ books = [InitBooks EXCEPT ![1].averageRating = 10 * MaxRating,
                                 ![1].ratingsCount = 1]
    /\ reviews = [r \in Rids |->
                    IF r = 1
                    THEN [NoReview EXCEPT !.book = 1, !.user = 1,
                                          !.rating = MaxRating, !.content = "a"]
                    ELSE NoReview]
    /\ users = [InitUsers EXCEPT ![1].booksRead = <<1>>]
    /\ req = [s \in Slots |-> Idle]

InitLike == LikeDb /\ hist = InitHist(FALSE)

InitLikeRecorded == LikeDb /\ hist = InitHist(TRUE)

SpecUpdateConc == InitLike /\ [][NextUpdateConc]_vars

\* One like or vote at a time, by users 1 and 2, on review 1 or on an id no
\* review has.
NextLikeSeq ==
    \/ LikeStart(1, 1..2, 1..2)
    \/ LikeFindReview(1)
    \/ LikeSave(1)
    \/ HelpfulStart(1, 1..2, 1..2)
    \/ HelpfulFindReview(1)
    \/ HelpfulSave(1)
    \/ HookFindBook(1)
    \/ HookAggregate(1)
    \/ HookSaveBook(1)

SpecLikeSeq == InitLikeRecorded /\ [][NextLikeSeq]_vars

\* Overlapping likes and votes of one user on the review (double submission).
NextLikeConc ==
    \E s \in Slots :
        \/ LikeStart(s, {1}, {1})
        \/ LikeFindReview(s)
        \/ LikeSave(s)
        \/ HelpfulStart(s, {1}, {1})
        \/ HelpfulFindReview(s)
        \/ HelpfulSave(s)
        \/ HookFindBook(s)
        \/ HookAggregate(s)
        \/ HookSaveBook(s)

SpecLikeConc == InitLike /\ [][NextLikeConc]_vars

\* Every user has reviewed book 1, two with the highest rating and one a
\* point lower, so that the mean has a fraction; the book stores either the
\* pair the recompute gives or an average one tenth lower (one left by an
\* earlier lost or failed recompute).
FrameRating(u) == IF u = NumUsers THEN MaxRating - 1 ELSE MaxRating

FrameReviews ==
    [r \in Rids |->
       IF r \in Users
       THEN [NoReview EXCEPT !.book = 1, !.user = r, !.rating = FrameRating(r),
                             !.content = "a"]
       ELSE NoReview]

\* The pair book b stores in bs is the count n of its reviews in rs and
\* their mean rounded half-up to one decimal (0 when n = 0).
ConsistentIn(bs, rs, b) ==
    LET S == BookReviews(rs, b)
        n == Cardinality(S)
        sum == SumRatings(rs, S)
        avg == bs[b].averageRating
    IN /\ bs[b].ratingsCount = n
       /\ n = 0 => avg = 0
       /\ n > 0 => /\ 2 * n * avg <= 20 * sum + n
                   /\ 20 * sum + n < 2 * n * (avg + 1)

FrameBooks(avg) ==
    [InitBooks EXCEPT ![1].averageRating = avg, ![1].ratingsCount = NumUsers]

InitLikeFrame ==
    /\ \E avg \in (10 * MinRating)..(10 * MaxRating), stale \in 0..1 :
          /\ ConsistentIn(FrameBooks(avg), FrameReviews, 1)
          /\ books = FrameBooks(avg - stale)
    /\ reviews = FrameReviews
    /\ users = [u \in Users |-> [InitUsers[u] EXCEPT !.booksRead = <<1>>]]
    /\ req = [s \in Slots |-> Idle]
    /\ hist = InitHist(TRUE)

\* One like or vote at a time, by users 1 and 2, on review 1 or on an id no
\* review has.
NextLikeFrame ==
    \/ LikeStart(1, 1..2, {1, Cardinality(Rids)})
    \/ LikeFindReview(1)
    \/ LikeSave(1)
    \/ HelpfulStart(1, 1..2, {1, Cardinality(Rids)})
    \/ HelpfulFindReview(1)
    \/ HelpfulSave(1)
    \/ HookFindBook(1)
    \/ HookAggregate(1)
    \/ HookSaveBook(1)

SpecLikeFrame == InitLikeFrame /\ [][NextLikeFrame]_vars

\* ---- POST /api/users/wishlist/:bookId -----------------------------------
WishlistStart(s, callers, bids, forms) ==
    /\ CanStart(s)
    /\ \E caller \in callers, bid \in bids, form \in forms :
         /\ Len(users[caller].wishlist) < MaxListLen
         /\ req' = [req EXCEPT ![s] =
                      [Idle EXCEPT !.op = "wishlist", !.pc = "findUser",
                                   !.caller = caller,
                                   !.target = [id |-> bid, form |-> form]]]
    /\ UNCHANGED <<books, reviews, users>>
    /\ Record(s)

\* User.findById(req.user._id)
WishlistFindUser(s) ==
    /\ req[s].op = "wishlist" /\ req[s].pc = "findUser"
    /\ req' = [req EXCEPT ![s].arr = users[req[s].caller].wishlist,
                          ![s].pc = "findBook"]
    /\ UNCHANGED <<books, reviews, users, hist>>

\* Book.findById(bookId), the 404, user.wishlist.includes(bookId) and the
\* local pull or push; the response will carry inWishlist and
\* wishlistCount (the local array's length) as flag and count.
WishlistFindBook(s) ==
    /\ req[s].op = "wishlist" /\ req[s].pc = "findBook"
    /\ LET r == req[s]
           b == CastObjectId(r.target)
           isInWishlist == Includes(r.arr, r.target)
       IN req' = [req EXCEPT ![s] =
                    IF ~(b \in DOMAIN books /\ books[b].exists) THEN Respond(r, 404)
                    ELSE [r EXCEPT !.book = b,
                                   !.plan = IF isInWishlist THEN "pull" ELSE "push",
                                   !.flag = ~isInWishlist,
                                   !.count = IF isInWishlist
                                             THEN Len(PullAll(r.arr, b))
                                             ELSE Len(r.arr) + 1,
                                   !.pc = "saveUser"]]
    /\ UNCHANGED <<books, reviews, users, hist>>

\* user.save(): the array change goes out as $pullAll / $push.
WishlistSave(s) ==
    /\ req[s].op = "wishlist" /\ req[s].pc = "saveUser"
    /\ LET r == req[s]
       IN /\ users' = [users EXCEPT ![r.caller].wishlist =
                         IF r.plan = "pull" THEN PullAll(@, r.book)
                         ELSE Push(@, r.book)]
          /\ req' = [req EXCEPT ![s] = Respond(r, 200)]
    /\ UNCHANGED <<books, reviews, hist>>

\* One like or wishlist request at a time: users 1 and 2 like the review,
\* user 2 toggles book 1 or an id no book has, in either spelling.
NextToggleSeq ==
    \/ LikeStart(1, 1..2, {1})
    \/ LikeFindReview(1)
    \/ LikeSave(1)
    \/ HookFindBook(1)
    \/ HookAggregate(1)
    \/ HookSaveBook(1)
    \/ WishlistStart(1, {2}, Books \cup {AbsentId}, IdForms)
    \/ WishlistFindUser(1)
    \/ WishlistFindBook(1)
    \/ WishlistSave(1)

SpecToggleSeq == InitLikeRecorded /\ [][NextToggleSeq]_vars

\* One request at a time on the state of LikeDb, each kind with an id that
\* has a document and with one that has none: user 2 reviews, likes, votes,
\* toggles the wishlist and follows; user 1 updates and deletes.
ProbedRids == {1, Cardinality(Rids)}

NextAbsent ==
    \/ CreateStart(1, {2}, Routes, {"lower"})
    \/ CreateFindBook(1)
    \/ CreateFindExisting(1)
    \/ CreateSaveReview(1)
    \/ CreateFindUser(1)
    \/ CreateSaveUser(1)
    \/ UpdateStart(1, {1}, ProbedRids, {MaxRating - 1}, {""})
    \/ UpdateFindReview(1)
    \/ UpdateApply(1)
    \/ DeleteStart(1, {1}, ProbedRids)
    \/ DeleteFindReview(1)
    \/ DeleteApply(1)
    \/ LikeStart(1, {2}, ProbedRids)
    \/ LikeFindReview(1)
    \/ LikeSave(1)
    \/ HelpfulStart(1, {2}, ProbedRids)
    \/ HelpfulFindReview(1)
    \/ HelpfulSave(1)
    \/ HookFindBook(1)
    \/ HookAggregate(1)
    \/ HookSaveBook(1)
    \/ WishlistStart(1, {2}, Books \cup {AbsentId}, {"lower"})
    \/ WishlistFindUser(1)
    \/ WishlistFindBook(1)
    \/ WishlistSave(1)
    \/ FollowStart(1, {2}, {1, AbsentId}, {"lower"})
    \/ FollowFindTarget(1)
    \/ FollowFindCurrent(1)
    \/ FollowSaveCurrent(1)
    \/ FollowSaveTarget(1)

SpecAbsent == InitLikeRecorded /\ [][NextAbsent]_vars

\* Reviews written by users 2 and 3 on either route, with a body that may
\* name another user and, on the nested route, another book; then edits by
\* user 1, likes and votes by user 2.
OtherBook == NumBooks + 1

NextIdentity ==
    \/ CreateStartWithBody(1, 2..3, Routes, {"lower"}, {0, 1}, {0, OtherBook})
    \/ CreateFindBook(1)
    \/ CreateFindExisting(1)
    \/ CreateSaveReview(1)
    \/ CreateFindUser(1)
    \/ CreateSaveUser(1)
    \/ UpdateStart(1, {1}, 1..2, {MinRating}, {"b"})
    \/ UpdateFindReview(1)
    \/ UpdateApply(1)
    \/ LikeStart(1, {2}, 1..2)
    \/ LikeFindReview(1)
    \/ LikeSave(1)
    \/ HelpfulStart(1, {2}, 1..2)
    \/ HelpfulFindReview(1)
    \/ HelpfulSave(1)
    \/ HookFindBook(1)
    \/ HookAggregate(1)
    \/ HookSaveBook(1)

SpecIdentity == InitLike /\ [][NextIdentity]_vars

\* One request at a time, ids in either spelling.
NextFollowSeq ==
    \/ FollowStart(1, Users, Users \cup {AbsentId}, IdForms)
    \/ FollowFindTarget(1)
    \/ FollowFindCurrent(1)
    \/ FollowSaveCurrent(1)
    \/ FollowSaveTarget(1)

SpecFollowSeq == InitRecorded /\ [][NextFollowSeq]_vars

\* One request at a time, canonical ids, either save may reject.
NextFollowFail ==
    \/ FollowStart(1, Users, Users \cup {AbsentId}, {"lower"})
    \/ FollowFindTarget(1)
    \/ FollowFindCurrent(1)
    \/ FollowSaveCurrent(1)
    \/ FollowSaveTarget(1)
    \/ FollowSaveCurrentFail(1)
    \/ FollowSaveTargetFail(1)

SpecFollowFail == Init /\ [][NextFollowFail]_vars

\* Overlapping requests of users 1 and 2, canonical ids, no failures.
NextFollowConc ==
    \E s \in Slots :
        \/ FollowStart(s, 1..2, 1..2, {"lower"})
        \/ FollowFindTarget(s)
        \/ FollowFindCurrent(s)
        \/ FollowSaveCurrent(s)
        \/ FollowSaveTarget(s)

SpecFollowConc == Init /\ [][NextFollowConc]_vars

\* ---- POST /api/books ----------------------------------------------------
\* The ids a new book can get: the catalogue's and two more.
BookIds == 1..(NumBooks + 2)

Isbns == {0, 7}
Genres == {"Fiction", "Mystery"}

\* Book.findOne({ isbn })
FindOneIsbn(bs, isbn) == \E b \in DOMAIN bs : bs[b].exists /\ bs[b].isbn = isbn

\* The unique sparse index on isbn: a write that would give book b an isbn
\* another document holds is refused (E11000).
IsbnIndexViolated(bs, b, isbn) ==
    isbn # 0 /\ \E c \in DOMAIN bs : c # b /\ bs[c].exists /\ bs[c].isbn = isbn

FreeBookIds == {b \in DOMAIN books : ~books[b].exists
                   /\ \A t \in Slots : InFlight(t) => req[t].book # b}
NewBookId == CHOOSE b \in FreeBookIds : \A c \in FreeBookIds : b <= c

\* The body: isbn 0 is a body without isbn; stats is the pair the body
\* carries as averageRating and ratingsCount, <<0, 0>> when it carries none.
CreateBookStart(s, callers, isbns, genres, stats) ==
    /\ CanStart(s)
    /\ Cardinality({b \in DOMAIN books : books[b].exists})
         + Cardinality({t \in Slots : InFlight(t) /\ req[t].op = "createBook"})
       < Cardinality(DOMAIN books)
    /\ \E caller \in callers, isbn \in isbns, genre \in genres, st \in stats :
         req' = [req EXCEPT ![s] =
                   [Idle EXCEPT !.op = "createBook",
                                !.pc = IF isbn # 0 THEN "findIsbn" ELSE "saveBook",
                                !.caller = caller, !.isbn = isbn,
                                !.genre = genre, !.stats = st]]
    /\ UNCHANGED <<books, reviews, users>>
    /\ Record(s)

CreateBookFindIsbn(s) ==
    /\ req[s].op = "createBook" /\ req[s].pc = "findIsbn"
    /\ LET r == req[s]
       IN req' = [req EXCEPT ![s] =
                    IF FindOneIsbn(books, r.isbn)
                    THEN Respond([r EXCEPT !.dup = TRUE], 400)
                    ELSE [r EXCEPT !.pc = "saveBook"]]
    /\ UNCHANGED <<books, reviews, users, hist>>

\* new Book({ ...req.body, addedBy: req.user._id }): every schema path the
\* body carries is taken.
NewBook(r) ==
    [NoBook EXCEPT !.exists = TRUE, !.addedBy = r.caller, !.isbn = r.isbn,
                   !.genre = r.genre, !.averageRating = r.stats[1],
                   !.ratingsCount = r.stats[2]]

\* book.save(): the insert; a duplicate key goes to the catch block (500).
CreateBookSave(s) ==
    /\ req[s].op = "createBook" /\ req[s].pc = "saveBook"
    /\ LET r == req[s]
       IN IF IsbnIndexViolated(books, AbsentId, r.isbn)
          THEN /\ books' = books
               /\ req' = [req EXCEPT ![s] = Respond([r EXCEPT !.dup = TRUE], 500)]
          ELSE /\ FreeBookIds # {}
               /\ books' = [books EXCEPT ![NewBookId] = NewBook(r)]
               /\ req' = [req EXCEPT ![s].book = NewBookId, ![s].pc = "populate"]
    /\ UNCHANGED <<reviews, users, hist>>

\* book.populate('addedBy', ...) and the 201 response
CreateBookPopulate(s) ==
    /\ req[s].op = "createBook" /\ req[s].pc = "populate"
    /\ req' = [req EXCEPT ![s] = Respond(req[s], 201)]
    /\ UNCHANGED <<books, reviews, users, hist>>

\* book.addedBy.toString() !== req.user._id.toString() && role !== 'admin'
MayChangeBook(book, caller, us) ==
    toString(book.addedBy) = toString(caller) \/ us[caller].role = "admin"

\* ---- PUT /api/books/:id ------------------------------------------------
\* isbn 0 and genre "none" stand for fields the body does not carry.
UpdateBookStart(s, callers, bids, isbns, genres) ==
    /\ CanStart(s)
    /\ \E caller \in callers, bid \in bids, isbn \in isbns, genre \in genres :
         req' = [req EXCEPT ![s] =
                   [Idle EXCEPT !.op = "updateBook", !.pc = "findBook",
                                !.caller = caller, !.bookStr = toString(bid),
                                !.isbn = isbn, !.genre = genre]]
    /\ UNCHANGED <<books, reviews, users>>
    /\ Record(s)

UpdateBookFind(s) ==
    /\ req[s].op = "updateBook" /\ req[s].pc = "findBook"
    /\ LET r == req[s]
           b == CastObjectId(r.bookStr)
       IN req' = [req EXCEPT ![s] =
                    IF ~(b \in DOMAIN books /\ books[b].exists) THEN Respond(r, 404)
                    ELSE IF ~MayChangeBook(books[b], r.caller, users)
                         THEN Respond(r, 403)
                    ELSE [r EXCEPT !.book = b,
                                   !.pc = IF r.isbn # 0 /\ r.isbn # books[b].isbn
                                          THEN "findIsbn" ELSE "findByIdAndUpdate"]]
    /\ UNCHANGED <<books, reviews, users, hist>>

UpdateBookFindIsbn(s) ==
    /\ req[s].op = "updateBook" /\ req[s].pc = "findIsbn"
    /\ LET r == req[s]
       IN req' = [req EXCEPT ![s] =
                    IF FindOneIsbn(books, r.isbn)
                    THEN Respond([r EXCEPT !.dup = TRUE], 400)
                    ELSE [r EXCEPT !.pc = "findByIdAndUpdate"]]
    /\ UNCHANGED <<books, reviews, users, hist>>

\* The allowed fields of the body, $set by findByIdAndUpdate.
BookUpdates(book, isbn, genre) ==
    [book EXCEPT !.isbn = IF isbn # 0 THEN isbn ELSE @,
                 !.genre = IF genre # "none" THEN genre ELSE @]

\* Book.findByIdAndUpdate(req.params.id, updates, ...): one write; a
\* duplicate key goes to the catch block (500); a book deleted meanwhile
\* gives a 200 with book: null.
UpdateBookApply(s) ==
    /\ req[s].op = "updateBook" /\ req[s].pc = "findByIdAndUpdate"
    /\ LET r == req[s]
       IN IF ~books[r.book].exists
          THEN /\ books' = books
               /\ req' = [req EXCEPT ![s] = Respond(r, 200)]
          ELSE IF IsbnIndexViolated(books, r.book, r.isbn)
          THEN /\ books' = books
               /\ req' = [req EXCEPT ![s] = Respond([r EXCEPT !.dup = TRUE], 500)]
          ELSE /\ books' = [books EXCEPT ![r.book] = BookUpdates(@, r.isbn, r.genre)]
               /\ req' = [req EXCEPT ![s] = Respond(r, 200)]
    /\ UNCHANGED <<reviews, users, hist>>

\* The catalogue and the ids of books not yet added.
BookDb(ids) ==
    /\ books = [b \in ids |-> IF b \in Books THEN InitBooks[b] ELSE NoBook]
    /\ reviews = [r \in Rids |-> NoReview]
    /\ users = InitUsers
    /\ req = [s \in Slots |-> Idle]

InitBook == BookDb(BookIds) /\ hist = InitHist(FALSE)

\* Room for one more book.
InitBookRecorded == BookDb(1..(NumBooks + 1)) /\ hist = InitHist(TRUE)

\* One request at a time: user 2 adds books, with or without rating fields
\* in the body; users 2 and 3 review books and delete reviews.
NextBookSeq ==
    \/ CreateBookStart(1, {2}, {0}, {"Fiction"}, {<<0, 0>>, <<45, 5>>})
    \/ CreateBookSave(1)
    \/ CreateBookPopulate(1)
    \/ CreateStart(1, 2..3, {"nested"}, {"lower"})
    \/ CreateFindBook(1)
    \/ CreateFindExisting(1)
    \/ CreateSaveReview(1)
    \/ CreateFindUser(1)
    \/ CreateSaveUser(1)
    \/ DeleteStart(1, 2..3, LiveRids)
    \/ DeleteFindReview(1)
    \/ DeleteApply(1)
    \/ HookFindBook(1)
    \/ HookAggregate(1)
    \/ HookSaveBook(1)

SpecBookSeq == InitBookRecorded /\ [][NextBookSeq]_vars

\* Overlapping create-book requests of user 2 and update-book requests of
\* users 2 (owner) and 3, with and without an isbn.
NextBookConc ==
    \E s \in Slots :
        \/ CreateBookStart(s, {2}, Isbns, {"Fiction"}, {<<0, 0>>})
        \/ CreateBookFindIsbn(s)
        \/ CreateBookSave(s)
        \/ CreateBookPopulate(s)
        \/ UpdateBookStart(s, 2..3, BookIds, Isbns, {"none", "Mystery"})
        \/ UpdateBookFind(s)
        \/ UpdateBookFindIsbn(s)
        \/ UpdateBookApply(s)

SpecBookConc == InitBook /\ [][NextBookConc]_vars

\* One book request at a time: user 2 adds books, with or without rating
\* fields in the body; users 2 (owner) and 3 update books.
NextBookWrite ==
    \/ CreateBookStart(1, {2}, Isbns, Genres, {<<0, 0>>, <<45, 5>>})
    \/ CreateBookFindIsbn(1)
    \/ CreateBookSave(1)
    \/ CreateBookPopulate(1)
    \/ UpdateBookStart(1, 2..3, BookIds, Isbns, {"none", "Mystery"})
    \/ UpdateBookFind(1)
    \/ UpdateBookFindIsbn(1)
    \/ UpdateBookApply(1)

SpecBookWrite == InitBook /\ [][NextBookWrite]_vars

\* ---- GET /api/users/:id/recommendations ---------------------------------
RecommendStart(s, uids) ==
    /\ CanStart(s)
    /\ \E uid \in uids :
         req' = [req EXCEPT ![s] =
                   [Idle EXCEPT !.op = "recommend", !.pc = "findUser",
                                !.target = toString(uid)]]
    /\ UNCHANGED <<books, reviews, users>>
    /\ Record(s)

\* populate('booksRead', 'genre'): the books of the list that exist.
Populated(bs, booksRead) ==
    {b \in Members(booksRead) : b \in DOMAIN bs /\ bs[b].exists}

\* [...new Set([...user.favoriteGenres, ...readGenres])]
FavoriteGenres(bs, user) ==
    Members(user.favoriteGenres) \cup {bs[b].genre : b \in Populated(bs, user.booksRead)}

\* User.findById(...).populate(...), the 404 and the genre set
RecommendFindUser(s) ==
    /\ req[s].op = "recommend" /\ req[s].pc = "findUser"
    /\ LET r == req[s]
           u == CastObjectId(r.target)
       IN req' = [req EXCEPT ![s] =
                    IF u \notin Users THEN Respond(r, 404)
                    ELSE [r EXCEPT !.genres = FavoriteGenres(books, users[u]),
                                   !.read = Populated(books, users[u].booksRead),
                                   !.pc = "findBooks"]]
    /\ UNCHANGED <<books, reviews, users, hist>>

\* The filter without the rating threshold.
MatchesAnyRating(book, b, genres, read) ==
    /\ book.exists
    /\ book.genre \in genres
    /\ b \notin read
    /\ book.ratingsCount >= MinRatingsCount

\* { genre: { $in }, _id: { $nin }, averageRating: { $gte: 4 },
\*   ratingsCount: { $gte: 5 } }
Matches(book, b, genres, read) ==
    /\ book.exists
    /\ book.genre \in genres
    /\ b \notin read
    /\ book.averageRating >= MinAverageRating
    /\ book.ratingsCount >= MinRatingsCount

\* sort({ averageRating: -1, ratingsCount: -1 }): x comes before y.  Books
\* equal in both keys are kept in _id order.
Before(bs, x, y) ==
    \/ bs[x].averageRating > bs[y].averageRating
    \/ /\ bs[x].averageRating = bs[y].averageRating
       /\ \/ bs[x].ratingsCount > bs[y].ratingsCount
          \/ bs[x].ratingsCount = bs[y].ratingsCount /\ x < y

RECURSIVE Sort(_, _)
Sort(bs, S) ==
    IF S = {} THEN <<>>
    ELSE LET first == CHOOSE x \in S : \A y \in S \ {x} : Before(bs, x, y)
         IN <<first>> \o Sort(bs, S \ {first})

\* The query without limit(12).
NoLimit(seq) == seq

\* limit(12)
Limit(seq) ==
    IF Len(seq) > RecommendLimit THEN SubSeq(seq, 1, RecommendLimit) ELSE seq

\* Book.find(...).sort(...).limit(12)
BookFind(bs, genres, read) ==
    Limit(Sort(bs, {b \in DOMAIN bs : Matches(bs[b], b, genres, read)}))

RecommendFindBooks(s) ==
    /\ req[s].op = "recommend" /\ req[s].pc = "findBooks"
    /\ req' = [req EXCEPT ![s] =
                 Respond([req[s] EXCEPT !.result =
                            BookFind(books, req[s].genres, req[s].read)], 200)]
    /\ UNCHANGED <<books, reviews, users, hist>>

\* A catalogue of ShelfSize books added with rating fields in their bodies:
\* the first `low` are rated below the threshold, the last `few` have too
\* few ratings, the others cycle through three ratings and two counts; the
\* genres alternate from `odd`, or are all the same; the last id may have
\* no document.
Shelf == 1..ShelfSize

ShelfBook(b, low, few, odd, gone) ==
    IF gone /\ b = ShelfSize THEN NoBook
    ELSE [NoBook EXCEPT
            !.exists = TRUE, !.addedBy = 2,
            !.genre = IF odd = "same" \/ (odd = "Fiction") = (b % 2 = 1)
                      THEN "Fiction" ELSE "Mystery",
            !.averageRating = IF b <= low THEN MinAverageRating - 1
                              ELSE MinAverageRating + 5 * (b % 3),
            !.ratingsCount = IF b > ShelfSize - few THEN MinRatingsCount - 1
                             ELSE MinRatingsCount + 3 * (b % 2)]

ReadLists == {<<>>, <<2>>, <<3, ShelfSize>>}
FavoriteLists == {<<>>, <<"Fiction">>, <<"Mystery">>, <<"Mystery", "Fiction">>}

ShelfDb ==
    /\ \E low \in 0..2, few \in 0..2, odd \in Genres \cup {"same"}, gone \in BOOLEAN :
         books = [b \in Shelf |-> ShelfBook(b, low, few, odd, gone)]
    /\ reviews = [r \in Rids |-> NoReview]
    /\ \E read \in ReadLists, fav \in FavoriteLists :
         users = [InitUsers EXCEPT ![2].booksRead = read,
                                   ![2].favoriteGenres = fav]
    /\ req = [s \in Slots |-> Idle]

InitShelf == ShelfDb /\ hist = InitHist(FALSE)

\* Recommendation requests for users 1 and 2 and for an id no user has.
NextRecommend ==
    \/ RecommendStart(1, {AbsentId, 1, 2})
    \/ RecommendFindUser(1)
    \/ RecommendFindBooks(1)

SpecRecommend == InitShelf /\ [][NextRecommend]_vars

\* ---- DELETE /api/books/:id ----------------------------------------------
DeleteBookStart(s, callers, bids, forms) ==
    /\ CanStart(s)
    /\ \E caller \in callers, bid \in bids, form \in forms :
         req' = [req EXCEPT ![s] =
                   [Idle EXCEPT !.op = "deleteBook", !.pc = "findBook",
                                !.caller = caller,
                                !.bookStr = [id |-> bid, form |-> form]]]
    /\ UNCHANGED <<books, reviews, users>>
    /\ Record(s)

DeleteBookFind(s) ==
    /\ req[s].op = "deleteBook" /\ req[s].pc = "findBook"
    /\ LET r == req[s]
           b == CastObjectId(r.bookStr)
       IN req' = [req EXCEPT ![s] =
                    IF ~(b \in DOMAIN books /\ books[b].exists) THEN Respond(r, 404)
                    ELSE IF ~MayChangeBook(books[b], r.caller, users)
                         THEN Respond(r, 403)
                    ELSE [r EXCEPT !.book = b, !.pc = "deleteMany"]]
    /\ UNCHANGED <<books, reviews, users, hist>>

\* Review.deleteMany({ book: req.params.id }): one write, no hook.
DeleteMany(rs, b) == [r \in Rids |-> IF rs[r].book = b THEN NoReview ELSE rs[r]]

DeleteBookReviews(s) ==
    /\ req[s].op = "deleteBook" /\ req[s].pc = "deleteMany"
    /\ reviews' = DeleteMany(reviews, req[s].book)
    /\ req' = [req EXCEPT ![s].pc = "findByIdAndDelete"]
    /\ UNCHANGED <<books, users, hist>>

\* Book.findByIdAndDelete(req.params.id)
DeleteBookApply(s) ==
    /\ req[s].op = "deleteBook" /\ req[s].pc = "findByIdAndDelete"
    /\ books' = [books EXCEPT ![req[s].book] = NoBook]
    /\ req' = [req EXCEPT ![s] = Respond(req[s], 200)]
    /\ UNCHANGED <<reviews, users, hist>>

\* A delete of book 1 by the admin or by a user overlapping with creates of
\* reviews for it by users 2 and 3, canonical ids.
NextBookDelete ==
    \E s \in Slots :
        \/ DeleteBookStart(s, 1..2, Books, {"lower"})
        \/ DeleteBookFind(s)
        \/ DeleteBookReviews(s)
        \/ DeleteBookApply(s)
        \/ CreateStart(s, 2..3, Routes, {"lower"})
        \/ CreateFindBook(s)
        \/ CreateFindExisting(s)
        \/ CreateSaveReview(s)
        \/ CreateFindUser(s)
        \/ CreateSaveUser(s)
        \/ HookFindBook(s)
        \/ HookAggregate(s)
        \/ HookSaveBook(s)

SpecBookDelete == Init /\ [][NextBookDelete]_vars

\* One request at a time: reviews written by users 2 and 3 on either route
\* with the book id in either spelling, reviews deleted, book 1 deleted.
NextBooksRead ==
    \/ CreateStart(1, 2..3, Routes, IdForms)
    \/ CreateFindBook(1)
    \/ CreateFindExisting(1)
    \/ CreateSaveReview(1)
    \/ CreateFindUser(1)
    \/ CreateSaveUser(1)
    \/ DeleteStart(1, 1..2, Rids)
    \/ DeleteFindReview(1)
    \/ DeleteApply(1)
    \/ DeleteBookStart(1, 1..2, Books, {"lower"})
    \/ DeleteBookFind(1)
    \/ DeleteBookReviews(1)
    \/ DeleteBookApply(1)
    \/ HookFindBook(1)
    \/ HookAggregate(1)
    \/ HookSaveBook(1)

SpecBooksRead == Init /\ [][NextBooksRead]_vars

\* One request at a time: reviews written on the nested route, re-rated
\* with every rating the validators accept, and deleted by the admin.
NextRatings ==
    \/ CreateStart(1, Users, {"nested"}, {"lower"})
    \/ CreateFindBook(1)
    \/ CreateFindExisting(1)
    \/ CreateSaveReview(1)
    \/ CreateFindUser(1)
    \/ CreateSaveUser(1)
    \/ UpdateStart(1, Users, Rids, MinRating..MaxRating, {""})
    \/ UpdateFindReview(1)
    \/ UpdateApply(1)
    \/ DeleteStart(1, {1}, Rids)
    \/ DeleteFindReview(1)
    \/ DeleteApply(1)
    \/ HookFindBook(1)
    \/ HookAggregate(1)
    \/ HookSaveBook(1)

SpecRatings == Init /\ [][NextRatings]_vars

Mirrored(us, a, b) ==
    (b \in Members(us[a].following)) <=> (a \in Members(us[b].followers))

AllMirrored(us) == \A a, b \in Users : Mirrored(us, a, b)

\* The four lists of the pair (a, b).
PairLists(us, a, b) ==
    <<us[a].following, us[a].followers, us[b].following, us[b].followers>>

\* C5: once a follow-toggle request has ended, with a 200 or with a 500 from
\* either of its two saves, b is in a.following iff a is in b.followers.
C5_MirroredAfterToggleEnded ==
    (req[1].pc = "done" /\ req[1].op = "follow") => AllMirrored(users)

\* C6: once all overlapping follow-toggle requests over the same ordered
\* pair have completed, the two lists mirror each other and neither holds
\* the same user twice.
C6_ConcurrentTogglesConsistent ==
    (/\ AllDone
     /\ \A s \in Slots : /\ req[s].op = "follow" /\ req[s].status = 200
                         /\ req[s].caller = req[1].caller
                         /\ req[s].target = req[1].target)
    => LET a == req[1].caller
           b == CastObjectId(req[1].target)
       IN /\ Mirrored(users, a, b)
          /\ NoDuplicates(users[a].following)
          /\ NoDuplicates(users[b].followers)

\* C7: two consecutive successful follow toggles by a on b, started from
\* mirrored lists, leave the four lists of a and b as they were before the
\* first of the two.
C7_ToggleTwiceRestores ==
    LET r == req[1]
        p == hist.prevReq
        a == r.caller
        b == CastObjectId(r.target)
    IN (/\ r.pc = "done" /\ r.op = "follow" /\ r.status = 200
        /\ p.op = "follow" /\ p.status = 200
        /\ p.caller = a /\ CastObjectId(p.target) = b
        /\ Mirrored(hist.prevPre[3], a, b) /\ Mirrored(hist.prevPre[3], b, a))
       => PairLists(users, a, b) = PairLists(hist.prevPre[3], a, b)

\* C8: a follow toggle whose target id denotes the caller is answered 400,
\* and no user is ever in their own followers or following list.
C8_SelfFollowRejected ==
    /\ (req[1].pc = "done" /\ req[1].op = "follow"
          /\ CastObjectId(req[1].target) = req[1].caller)
         => req[1].status = 400
    /\ \A u \in Users : /\ u \notin Members(users[u].following)
                        /\ u \notin Members(users[u].followers)

\* ---- the rating aggregate ----------------------------------------------
\* The stored pair of book b is the count n of its reviews and their mean
\* rounded half-up to one decimal: avg is the integer with
\* avg <= 10 * mean + 1/2 < avg + 1, and 0 when n = 0.
AggregateConsistent(b) ==
    LET S == BookReviews(reviews, b)
        n == Cardinality(S)
        sum == SumRatings(reviews, S)
        avg == books[b].averageRating
    IN /\ books[b].ratingsCount = n
       /\ n = 0 => avg = 0
       /\ n > 0 => /\ 2 * n * avg <= 20 * sum + n
                   /\ 20 * sum + n < 2 * n * (avg + 1)

ReviewMutations == {"createReview", "updateReview", "deleteReview"}

\* C1: after every review create, update or delete that completed
\* successfully (one request at a time, no write failures) the parent book's
\* ratingsCount is the number of its reviews and its averageRating their mean
\* rounded half-up to one decimal, both 0 when there are none.
C1_AggregateAfterMutation ==
    (req[1].pc = "done" /\ req[1].op \in ReviewMutations
        /\ req[1].status \in {200, 201})
    => AggregateConsistent(req[1].book)

\* A rating update has just completed on a book with three reviews whose
\* mean needs rounding.
C1_Witness ==
    /\ req[1].pc = "done" /\ req[1].op = "updateReview" /\ req[1].status = 200
    /\ books[req[1].book].ratingsCount = 3
    /\ (10 * SumRatings(reviews, BookReviews(reviews, req[1].book))) % 3 # 0

\* C2: once all overlapping review mutations on a book have completed, the
\* book's stored pair is the aggregate of its current reviews.
C2_AggregateAfterConcurrentMutations ==
    (AllDone /\ \A s \in Slots : req[s].op \in ReviewMutations
                                  /\ req[s].status \in {200, 201})
    => \A b \in Books : AggregateConsistent(b)

\* C3: there is at most one review for any (book, user) pair, in every
\* state, overlapping create requests of the same user included.
C3_OneReviewPerPair ==
    \A r1, r2 \in Rids :
        (reviews[r1].book # 0 /\ reviews[r1].book = reviews[r2].book
            /\ reviews[r1].user = reviews[r2].user) => r1 = r2

\* Two creates of the same user for the same book overlapped: both passed
\* the existence check, one inserted and the other was refused at its save.
C3_Witness ==
    \E s \in Slots :
        /\ req[s].pc = "done" /\ req[s].op = "createReview"
        /\ req[s].status = 500 /\ req[s].dup
        /\ \E r \in Rids : reviews[r].book = req[s].book
                             /\ reviews[r].user = req[s].caller

\* C4: every create-review request for a pair that already has a review,
\* found at the existence check or at the save, is answered 400.
C4_DuplicateAnswered400 ==
    \A s \in Slots :
        (req[s].pc = "done" /\ req[s].op = "createReview" /\ req[s].dup)
        => req[s].status = 400

\* ---- likes and helpful votes -------------------------------------------
\* C9: a review's likes hold any user at most once and its helpful list at
\* most one vote per user, overlapping requests of the same user included.
C9_OneLikeAndVotePerUser ==
    \A r \in Rids :
        /\ NoDuplicates(reviews[r].likes)
        /\ \A i, j \in 1..Len(reviews[r].helpful) :
              reviews[r].helpful[i].user = reviews[r].helpful[j].user => i = j

\* Two consecutive successful votes of the same user on the same review.
TwoVotes ==
    /\ req[1].pc = "done" /\ req[1].op = "helpful" /\ req[1].status = 200
    /\ hist.prevReq.op = "helpful" /\ hist.prevReq.status = 200
    /\ hist.prevReq.caller = req[1].caller /\ hist.prevReq.rid = req[1].rid

\* C10: a second vote with the same value leaves the helpful list as the
\* first vote left it; a second vote with the opposite value overwrites the
\* user's entry where it stands and adds none.
C10_HelpfulVoteIdempotent ==
    TwoVotes =>
        LET now == reviews[req[1].rid].helpful
            before == hist.curPre[2][req[1].rid].helpful
            i == CHOOSE k \in 1..Len(before) : before[k].user = req[1].caller
        IN /\ \E k \in 1..Len(before) : before[k].user = req[1].caller
           /\ Len(now) = Len(before)
           /\ hist.prevReq.isHelpful = req[1].isHelpful => now = before
           /\ hist.prevReq.isHelpful # req[1].isHelpful
                => now = [before EXCEPT ![i].isHelpful = req[1].isHelpful]

\* The second of two opposite votes has completed on a list that also
\* holds another user's vote.
C10_Witness ==
    /\ TwoVotes
    /\ hist.prevReq.isHelpful # req[1].isHelpful
    /\ Len(reviews[req[1].rid].helpful) >= 2

\* ---- book deletion -----------------------------------------------------
\* C11: once a delete-book request has completed with 200, no review
\* references the deleted book, whatever create-review requests for that
\* book overlapped with it.
C11_NoReviewOfDeletedBook ==
    \A s \in Slots :
        (req[s].pc = "done" /\ req[s].op = "deleteBook" /\ req[s].status = 200)
        => \A r \in Rids : reviews[r].book # req[s].book

\* ---- add then delete ---------------------------------------------------
\* The pair <<averageRating, ratingsCount>> a book stores.
Stored(bs, b) == <<bs[b].averageRating, bs[b].ratingsCount>>

\* The request that just ended deleted the review that the request before
\* it created: same user, same book, and the user has no review of the book
\* left.
AddedThenDeleted ==
    /\ req[1].pc = "done" /\ req[1].op = "deleteReview" /\ req[1].status = 200
    /\ hist.prevReq.op = "createReview" /\ hist.prevReq.status = 201
    /\ hist.prevReq.caller = req[1].caller /\ hist.prevReq.book = req[1].book
    /\ \A r \in Rids : ~(reviews[r].book = req[1].book
                          /\ reviews[r].user = req[1].caller)

\* C12: after a review is created the book stores the aggregate of its
\* reviews, the new one included; after that review is then deleted the
\* book stores the pair it stored before the create.
C12_AddThenDeleteRestores ==
    /\ (req[1].pc = "done" /\ req[1].op = "createReview" /\ req[1].status = 201)
         => AggregateConsistent(req[1].book)
    /\ AddedThenDeleted
         => Stored(books, req[1].book) = Stored(hist.prevPre[1], req[1].book)

\* ---- recommendations ---------------------------------------------------
\* The user a completed recommendation request was for.
RecommendedTo == CastObjectId(req[1].target)

RecommendDone ==
    req[1].pc = "done" /\ req[1].op = "recommend" /\ req[1].status = 200

\* The selection filter, stated on the stored documents.
CandidateGenres(u) ==
    Members(users[u].favoriteGenres)
    \cup {g \in Genres : \E i \in 1..Len(users[u].booksRead) :
             LET b == users[u].booksRead[i]
             IN b \in DOMAIN books /\ books[b].exists /\ books[b].genre = g}

Eligible(u) ==
    {b \in DOMAIN books :
        /\ books[b].exists
        /\ \A i \in 1..Len(users[u].booksRead) : users[u].booksRead[i] # b
        /\ books[b].genre \in CandidateGenres(u)
        /\ 10 * 4 <= books[b].averageRating
        /\ 5 <= books[b].ratingsCount}

\* C13: every book returned by a recommendation request is a stored book
\* that is not in the user's booksRead, whose genre is one of the user's
\* favourite genres or the genre of a book in booksRead, with averageRating
\* at least 4 and ratingsCount at least 5.
C13_RecommendedPassFilter ==
    RecommendDone =>
        \A i \in 1..Len(req[1].result) : req[1].result[i] \in Eligible(RecommendedTo)

\* A non-empty answer for a user who has read a book that meets both
\* thresholds and whose genre is a candidate, from a catalogue that also
\* holds a book below the rating threshold.
C13_Witness ==
    /\ RecommendDone
    /\ req[1].result # <<>>
    /\ \E b \in Members(users[RecommendedTo].booksRead) :
          /\ b \in DOMAIN books /\ books[b].exists
          /\ books[b].averageRating >= 40 /\ books[b].ratingsCount >= 5
    /\ \E b \in DOMAIN books :
          /\ books[b].exists /\ books[b].genre \in CandidateGenres(RecommendedTo)
          /\ books[b].averageRating < 40 /\ books[b].ratingsCount >= 5

\* x does not come after y in the order of the answer.
NotAfter(x, y) ==
    \/ books[x].averageRating > books[y].averageRating
    \/ /\ books[x].averageRating = books[y].averageRating
       /\ books[x].ratingsCount >= books[y].ratingsCount

\* C14: the answer holds at most 12 books, each once, in descending order
\* of averageRating and, among equal averageRating, of ratingsCount; with k
\* books passing the filter it holds min(12, k) of them and no book left
\* out precedes one that is in; it is empty when the genre set is empty.
C14_TopTwelveInOrder ==
    RecommendDone =>
        LET res == req[1].result
            E == Eligible(RecommendedTo)
            k == Cardinality(E)
        IN /\ Len(res) = IF k < 12 THEN k ELSE 12
           /\ NoDuplicates(res)
           /\ Members(res) \subseteq E
           /\ \A i, j \in 1..Len(res) : i < j => NotAfter(res[i], res[j])
           /\ \A b \in E \ Members(res) :
                 \A i \in 1..Len(res) : NotAfter(res[i], b)
           /\ CandidateGenres(RecommendedTo) = {} => res = <<>>

\* More than 12 books pass the filter, with ties in averageRating broken
\* by ratingsCount inside the answer.
C14_Witness ==
    /\ RecommendDone
    /\ Cardinality(Eligible(RecommendedTo)) > 12
    /\ \E i \in 1..(Len(req[1].result) - 1) :
          /\ books[req[1].result[i]].averageRating
               = books[req[1].result[i + 1]].averageRating
          /\ books[req[1].result[i]].ratingsCount
               > books[req[1].result[i + 1]].ratingsCount

\* ---- edit history ------------------------------------------------------
\* C15: a step that changes a review's content appends exactly the content
\* the review held just before the step to its editHistory; a step that
\* leaves the content as it was leaves editHistory as it was; overlapping
\* updates of the same review included.
C15_EditHistoryFaithful ==
    [][\A r \in Rids :
         (Exists(reviews, r) /\ Exists(reviews', r)) =>
            /\ reviews'[r].content # reviews[r].content
                 => reviews'[r].editHistory
                      = Append(reviews[r].editHistory, reviews[r].content)
            /\ reviews'[r].content = reviews[r].content
                 => reviews'[r].editHistory = reviews[r].editHistory]_vars

\* ---- authorization of review updates and deletes -----------------------
\* C16: an update-review request whose caller is not the review's author,
\* an admin included, is answered 403 at the ownership check, and neither
\* the reviews nor the books change.
C16_OnlyAuthorUpdates ==
    [][(/\ req[1].op = "updateReview" /\ req[1].pc = "findReview"
        /\ Exists(reviews, req[1].rid)
        /\ reviews[req[1].rid].user # req[1].caller)
       => /\ req'[1].pc = "done" /\ req'[1].status = 403
          /\ reviews' = reviews /\ books' = books]_vars

\* An admin's update of another user's review has been answered 403.
C16_Witness ==
    /\ req[1].pc = "done" /\ req[1].op = "updateReview" /\ req[1].status = 403
    /\ users[req[1].caller].role = "admin"

\* The caller of the delete request in slot 1 is the author of the review
\* it names or an admin.
DeleteAllowed ==
    \/ reviews[req[1].rid].user = req[1].caller
    \/ users[req[1].caller].role = "admin"

\* C17: a delete-review request for an existing review goes on to the
\* delete iff its caller is the author or an admin, and is otherwise
\* answered 403 with reviews and books unchanged; a review disappears only
\* by such an allowed delete; and the 200 is sent only after the recompute
\* has stored the aggregate of the book's remaining reviews.
C17_DeleteByAuthorOrAdmin ==
    [][/\ (/\ req[1].op = "deleteReview" /\ req[1].pc = "findReview"
           /\ Exists(reviews, req[1].rid))
          => /\ reviews' = reviews /\ books' = books
             /\ IF DeleteAllowed
                THEN req'[1].pc = "findByIdAndDelete"
                ELSE req'[1].pc = "done" /\ req'[1].status = 403
       /\ (req[1].op = "deleteReview" /\ req[1].pc = "findByIdAndDelete")
          => ~Exists(reviews', req[1].rid) /\ req'[1].pc = "hookFindBook"
       /\ \A r \in Rids :
            (Exists(reviews, r) /\ ~Exists(reviews', r))
            => /\ req[1].op = "deleteReview" /\ req[1].pc = "findByIdAndDelete"
               /\ req[1].rid = r /\ DeleteAllowed
       /\ (/\ req[1].pc # "done" /\ req'[1].pc = "done"
           /\ req'[1].op = "deleteReview" /\ req'[1].status = 200)
          => /\ req[1].pc = "hookSaveBook"
             /\ AggregateConsistent(req[1].book)']_vars

\* An admin who never wrote a review has deleted another user's review and
\* the book still has reviews.
C17_Witness ==
    /\ req[1].pc = "done" /\ req[1].op = "deleteReview" /\ req[1].status = 200
    /\ users[req[1].caller].role = "admin"
    /\ users[req[1].caller].booksRead = <<>>
    /\ books[req[1].book].ratingsCount > 0

\* ---- ISBN uniqueness ---------------------------------------------------
\* C18: a create-book or update-book request whose isbn another book
\* holds, found at the existence check or at the write, is answered 400,
\* and no two books hold the same isbn.
C18_DuplicateIsbnAnswered400 ==
    /\ \A s \in Slots :
          (req[s].pc = "done" /\ req[s].op \in {"createBook", "updateBook"}
              /\ req[s].dup)
          => req[s].status = 400
    /\ \A b, c \in DOMAIN books :
          (books[b].exists /\ books[c].exists /\ books[b].isbn # 0
              /\ books[b].isbn = books[c].isbn) => b = c

\* ---- failure of the recompute's write ----------------------------------
\* C19: when the step that writes the recomputed pair after a review
\* create leaves the book without that pair, the request ends there with
\* 500: the new review stays stored, the book keeps the pair it had, and
\* the user's booksRead is not touched.
C19_RecomputeFailurePropagates ==
    [][(/\ req[1].op = "createReview" /\ req[1].pc = "hookSaveBook"
        /\ req'[1] # req[1]
        /\ Stored(books', req[1].book) # req[1].computed)
       => /\ req'[1].pc = "done" /\ req'[1].status = 500
          /\ books' = books /\ users' = users /\ reviews' = reviews
          /\ Exists(reviews', req[1].rid)
          /\ reviews'[req[1].rid].user = req[1].caller
          /\ reviews'[req[1].rid].book = req[1].book]_vars

\* A create has ended with 500 after its insert: the review is stored, the
\* book still holds a non-zero pair that is not the aggregate of its
\* reviews, and the book is not in the user's booksRead.
C19_Witness ==
    /\ req[1].pc = "done" /\ req[1].op = "createReview" /\ req[1].status = 500
    /\ \E r \in Rids : reviews[r].book = req[1].book
                         /\ reviews[r].user = req[1].caller
    /\ books[req[1].book].ratingsCount > 0
    /\ Stored(books, req[1].book) # Stats(reviews, req[1].book)
    /\ req[1].book \notin Members(users[req[1].caller].booksRead)

\* ---- presence toggles --------------------------------------------------
\* The request that just ended and the one before it were successful
\* requests of the same kind with the same arguments.
SameTwice(op) ==
    /\ req[1].pc = "done" /\ req[1].op = op /\ req[1].status = 200
    /\ hist.prevReq.op = op /\ hist.prevReq.status = 200
    /\ hist.prevReq.caller = req[1].caller
    /\ hist.prevReq.rid = req[1].rid
    /\ hist.prevReq.target = req[1].target

\* C20: a successful like request flips the caller's membership in the
\* review's likes and a successful wishlist request flips the book's
\* membership in the caller's wishlist; the response's flag and count are
\* the membership and the size after the request; two consecutive requests
\* with the same arguments restore the original membership.
C20_PresenceToggles ==
    /\ (req[1].pc = "done" /\ req[1].op = "like" /\ req[1].status = 200)
         => LET now == reviews[req[1].rid].likes
                before == hist.curPre[2][req[1].rid].likes
            IN /\ (req[1].caller \in Members(now))
                    # (req[1].caller \in Members(before))
               /\ req[1].flag = (req[1].caller \in Members(now))
               /\ req[1].count = Len(now)
    /\ SameTwice("like")
         => Members(reviews[req[1].rid].likes)
              = Members(hist.prevPre[2][req[1].rid].likes)
    /\ (req[1].pc = "done" /\ req[1].op = "wishlist" /\ req[1].status = 200)
         => LET now == users[req[1].caller].wishlist
                before == hist.curPre[3][req[1].caller].wishlist
            IN /\ (req[1].book \in Members(now))
                    # (req[1].book \in Members(before))
               /\ req[1].flag = (req[1].book \in Members(now))
               /\ req[1].count = Len(now)
    /\ SameTwice("wishlist")
         => Members(users[req[1].caller].wishlist)
              = Members(hist.prevPre[3][req[1].caller].wishlist)

\* ---- absent resources --------------------------------------------------
\* The request in flight in slot 1 names a book, user or review id that no
\* document has (for a review, at the lookup: a delete goes on after it has
\* removed the review it named).
NoBookWithId(b) == ~(b \in DOMAIN books /\ books[b].exists)

AbsentRef ==
    LET r == req[1]
    IN /\ r.pc \notin {"idle", "done"}
       /\ \/ r.op = "createReview" /\ NoBookWithId(r.bookStr.id)
          \/ r.op = "wishlist" /\ NoBookWithId(r.target.id)
          \/ r.op = "follow" /\ r.target.id \notin Users
          \/ /\ r.op \in {"like", "helpful", "updateReview", "deleteReview"}
             /\ r.pc = "findReview"
             /\ reviews[r.rid].book = 0

\* C21: no step of a request that names an absent book, user or review
\* changes the books, the reviews or the users, and its response is 404;
\* a request answered 404 has left the three collections as they were when
\* it arrived.
C21_AbsentAnswered404 ==
    /\ [][AbsentRef => /\ books' = books /\ reviews' = reviews /\ users' = users
                       /\ req'[1].pc = "done" => req'[1].status = 404]_vars
    /\ [](req[1].pc = "done" /\ req[1].status = 404 => db = hist.curPre)

\* A create-review for an absent book has been answered 404 right after a
\* like of an absent review was, with reviews, likes and a wishlist entry
\* stored.
C21_Witness ==
    /\ req[1].pc = "done" /\ req[1].op = "createReview" /\ req[1].status = 404
    /\ hist.prevReq.op = "like" /\ hist.prevReq.status = 404
    /\ \E r \in Rids : reviews[r].book # 0 /\ reviews[r].likes # <<>>
    /\ users[2].wishlist # <<>>

\* ---- derived fields ----------------------------------------------------
\* C22: a book just created through POST /api/books stores averageRating 0
\* and ratingsCount 0 whatever its body carried, and no step of an
\* update-book request changes a book's averageRating, ratingsCount or
\* addedBy.
C22_DerivedFieldsOnlyByRecompute ==
    /\ [](req[1].pc = "done" /\ req[1].op = "createBook" /\ req[1].status = 201
            => Stored(books, req[1].book) = <<0, 0>>)
    /\ [][req[1].op = "updateBook"
            => \A b \in DOMAIN books :
                  /\ Stored(books', b) = Stored(books, b)
                  /\ books'[b].addedBy = books[b].addedBy]_vars

\* C23: a review is stored with the authenticated caller as its user
\* whatever user the body names, and on POST /api/books/:id/reviews with the
\* book of the path whatever book the body names; a review that exists keeps
\* its book and its user through every update, like and helpful request.
C23_ReviewIdentityFixed ==
    [][\A x \in Rids :
         /\ ~Exists(reviews, x) /\ Exists(reviews', x)
              => /\ reviews'[x].user = req[1].caller
                 /\ reviews'[x].book = CastObjectId(req[1].bookStr)
         /\ Exists(reviews, x)
              => /\ reviews'[x].book = reviews[x].book
                 /\ reviews'[x].user = reviews[x].user]_vars

\* A review just stored by a nested-route request whose body named another
\* user and another book, next to a review that has been edited and liked.
C23_Witness ==
    /\ req[1].op = "createReview" /\ req[1].pc = "hookFindBook"
    /\ req[1].route = "nested"
    /\ req[1].bodyUser \notin {0, req[1].caller}
    /\ req[1].bodyBook = OtherBook
    /\ reviews[req[1].rid].user = req[1].caller
    /\ reviews[req[1].rid].book = req[1].book
    /\ reviews[1].editHistory # <<>>
    /\ reviews[1].likes # <<>>
    /\ reviews[1].helpful # <<>>

\* The rating data: every review's rating and book, every book's pair.
RatingData(bs, rs) ==
    <<[x \in Rids |-> <<rs[x].book, rs[x].rating>>],
      [b \in DOMAIN bs |-> Stored(bs, b)]>>

LikeOrVoteDone ==
    /\ req[1].pc = "done"
    /\ req[1].op \in {"like", "helpful"}

\* C24: when a like or helpful request has ended, every review's rating,
\* every book's averageRating and ratingsCount and every book's set of
\* reviews are what they were when the request began, provided each book's
\* aggregates then agreed with its reviews.
C24_LikeKeepsRatingData ==
    LikeOrVoteDone
      /\ (\A b \in DOMAIN books : ConsistentIn(hist.curPre[1], hist.curPre[2], b))
      => RatingData(books, reviews) = RatingData(hist.curPre[1], hist.curPre[2])

\* A like that was saved on a review of a book with consistent aggregates,
\* after a helpful vote.
C24_Witness ==
    /\ LikeOrVoteDone
    /\ req[1].op = "like" /\ req[1].status = 200
    /\ reviews[req[1].rid].likes # hist.curPre[2][req[1].rid].likes
    /\ reviews[req[1].rid].helpful # <<>>
    /\ ConsistentIn(hist.curPre[1], hist.curPre[2], 1)

\* Every existing review's book is in its author's booksRead.
ReviewedBooksRead ==
    \A x \in Rids :
        Exists(reviews, x) => reviews[x].book \in Members(users[reviews[x].user].booksRead)

NoBookReadTwice == \A u \in Users : NoDuplicates(users[u].booksRead)

\* Every entry of every booksRead is still there, as many times, after the step.
BooksReadKept ==
    \A u \in Users, b \in Books :
        Count(users'[u].booksRead, b) >= Count(users[u].booksRead, b)

\* C25: with no request in flight every existing review's book is in its
\* author's booksRead and no booksRead holds a book twice; no step of a
\* request that deletes a review or a book removes a booksRead entry.
C25_BooksReadTracksReviews ==
    /\ [](AllDone => ReviewedBooksRead /\ NoBookReadTwice)
    /\ [][req[1].op \in {"deleteReview", "deleteBook"} => BooksReadKept]_vars

\* C26: every book stores ratingsCount = 0 exactly when it stores
\* averageRating = 0, and with ratingsCount > 0 its averageRating is a whole
\* number of tenths between 1.0 and 5.0 (averages are held in tenths).
C26_AverageInRange ==
    \A b \in DOMAIN books :
        books[b].exists =>
            /\ books[b].ratingsCount = 0 <=> books[b].averageRating = 0
            /\ books[b].ratingsCount > 0 =>
                  /\ books[b].averageRating \in Nat
                  /\ 10 * MinRating <= books[b].averageRating
                  /\ books[b].averageRating <= 10 * MaxRating

\* Every user has a review of book 1, the lowest and the highest rating are
\* among them, and the stored average is not a whole number.
C26_Witness ==
    /\ AllDone
    /\ books[1].ratingsCount = NumUsers
    /\ books[1].averageRating % 10 # 0
    /\ \E x, y \in Rids : /\ reviews[x].book = 1 /\ reviews[x].rating = MinRating
                           /\ reviews[y].book = 1 /\ reviews[y].rating = MaxRating

====
